---- MODULE Spec2Model ----
(***************************************************************************)
(* Connection lifecycle of the WhatsApp REST server (src/server.js).       *)
(*                                                                         *)
(* The program state is the four module-level variables sock, isReady,     *)
(* qrCodeData and userInfo, the credential directory auth_info, the        *)
(* session handles made by makeWASocket, the executions of                 *)
(* initializeWhatsApp (pending as a setTimeout timer, suspended at one of  *)
(* its two awaits, or finished) and the POST /api/disconnect requests      *)
(* (suspended at "await sock.logout()", or answered).                      *)
(*                                                                         *)
(* Node runs every callback to its next await without interruption, so one *)
(* action is one such run.  The wire client is a black box: a handle that  *)
(* has not closed may emit a qr, an open or a close update at any time.    *)
(***************************************************************************)
EXTENDS Naturals, FiniteSets, Sequences

\* ---------------------------------------------------------------- bounds
\* Executions of initializeWhatsApp over the life of the process, the one
\* at startup included.  Handle k is the handle made by execution k.
MaxInits == 3
\* HTTP requests that change or use the connection (POST /api/disconnect,
\* POST /api/send-message, GET /api/groups) over the life of the process.
MaxReqs == 2
\* Length of a target given to the normalisation, in characters of Chars.
MaxLen == 3

\* JavaScript null, in sock, qrCodeData and userInfo.
Null == 0

InitIds == 1..MaxInits
ReqIds == 1..MaxReqs
\* The QR tokens the wire client emits: two distinct ones tell the latest
\* token from the one before it.
QrTokens == {1, 2}

\* lastDisconnect.error of a close update: a Boom carrying
\* DisconnectReason.loggedOut, a Boom carrying another status code, or a
\* value that is no Boom (undefined included).
CloseReasons == {"loggedOut", "boomOther", "notBoom"}

VARIABLES
  sock,        \* Null, or the id of the handle last assigned to sock
  isReady,     \* BOOLEAN
  qrCodeData,  \* Null, or the stored QR token
  userInfo,    \* Null, or the id of the handle whose user was copied
  authDir,     \* TRUE iff the directory auth_info exists
  handles,     \* handle id -> "none", "connecting", "open" or "closed"
  inits,       \* execution id -> [st, firedReady]
  reqs,        \* request id -> [st, deleteAuth, h]
  uploads,     \* ids of the requests whose uploaded file is in uploads/
  sent,        \* request id -> number of sock.sendMessage calls made for it
  lastOp       \* what the last step did (history, read by no action)

vars == <<sock, isReady, qrCodeData, userInfo, authDir, handles, inits, reqs,
          uploads, sent, lastOp>>

\* --------------------------------------------------------------- helpers
\* st: "unused", "timer" (scheduled by setTimeout), "auth" and "version"
\* (suspended at the first and the second await), "done" (handle made) or
\* "failed" (catch block run).  firedReady is history: isReady was true when
\* the timer of a suspended execution fired.
NoInit == [st |-> "unused", firedReady |-> FALSE]
NoReq == [st |-> "unused", deleteAuth |-> FALSE, h |-> Null]

\* The record of a step; every action fills in what applies to it.
\*   op: the handler that ran;  id: the handle, execution or request;
\*   status/deletedAuth: the HTTP answer, if the step sent one;
\*   sched: how many setTimeout(initializeWhatsApp) calls the step made;
\*   timer: the execution id of the last timer it scheduled;
\*   wasReady: isReady when a close update arrived;
\*   fault: the step threw out of its handler;
\*   number/text/file: the fields of a send-message request;
\*   code/message: the HTTP status and the message of the answer, if any;
\*   calls: how many calls the step made on the handle in sock;
\*   payload/caption/jid: what was handed to sock.sendMessage;
\*   threw/err: the awaited call rejected, and the message of its error;
\*   token: the token of a qr update;
\*   own: how many of the sched timers the disconnect handler set itself;
\*   whatsappReady, isReady/hasQrCode/hasSocket, qr: the fields of the
\*   answers of GET /api, GET /api/status and GET /api/qr.
NoOp ==
  [op |-> "none", id |-> 0, reason |-> "none", deleteAuth |-> FALSE,
   status |-> "none", deletedAuth |-> FALSE, sched |-> 0, timer |-> 0,
   wasReady |-> FALSE, fault |-> FALSE,
   number |-> <<>>, text |-> "", file |-> FALSE, code |-> 0, message |-> "",
   calls |-> 0, payload |-> "none", caption |-> "", jid |-> <<>>,
   threw |-> FALSE, err |-> "", token |-> 0,
   own |-> 0,
   whatsappReady |-> FALSE, isReady |-> FALSE, hasQrCode |-> FALSE,
   hasSocket |-> FALSE, qr |-> 0]

Min(S) == CHOOSE x \in S : \A y \in S : x <= y

FreeInits == {k \in InitIds : inits[k].st = "unused"}
FreeReqs == {r \in ReqIds : reqs[r].st = "unused"}

\* setTimeout(() => { initializeWhatsApp(); }, delay): one more one-shot timer.
NextTimer(ins) == Min({k \in InitIds : ins[k].st = "unused"})
SetTimeout(ins) ==
  [ins EXCEPT ![NextTimer(ins)] = [st |-> "timer", firedReady |-> FALSE]]

\* Handles that exist and have not closed.
LiveHandles == {h \in InitIds : handles[h] \in {"connecting", "open"}}
\* One-shot timers that will call initializeWhatsApp.
PendingTimers == {k \in InitIds : inits[k].st = "timer"}
\* Executions of initializeWhatsApp suspended at an await.
RunningInits == {k \in InitIds : inits[k].st \in {"auth", "version"}}

\* ------------------------------------------------------------------ Init
\* The state once the module has been loaded: auth_info exists, the four
\* variables hold their initial values and the call of initializeWhatsApp at
\* the end of the set-up is suspended at its first await.
Init ==
  /\ sock = Null
  /\ isReady = FALSE
  /\ qrCodeData = Null
  /\ userInfo = Null
  /\ authDir = TRUE
  /\ handles = [h \in InitIds |-> "none"]
  /\ inits = [k \in InitIds |->
                IF k = 1 THEN [st |-> "auth", firedReady |-> FALSE] ELSE NoInit]
  /\ reqs = [r \in ReqIds |-> NoReq]
  /\ uploads = {}
  /\ sent = [r \in ReqIds |-> 0]
  /\ lastOp = [NoOp EXCEPT !.op = "startup", !.id = 1]

\* ------------------------------------------------- initializeWhatsApp
\* A timer fires: its callback calls initializeWhatsApp, which runs to
\* "await useMultiFileAuthState('auth_info')".
TimerFire(k) ==
  /\ inits[k].st = "timer"
  /\ inits' = [inits EXCEPT ![k] = [st |-> "auth", firedReady |-> isReady]]
  /\ lastOp' = [NoOp EXCEPT !.op = "timerFire", !.id = k]
  /\ UNCHANGED <<sock, isReady, qrCodeData, userInfo, authDir, handles, reqs, uploads, sent>>

\* useMultiFileAuthState resolves (it creates the folder when it is missing);
\* the execution goes on to "await fetchLatestBaileysVersion()".
InitAuthLoaded(k) ==
  /\ inits[k].st = "auth"
  /\ inits' = [inits EXCEPT ![k].st = "version"]
  /\ authDir' = TRUE
  /\ lastOp' = [NoOp EXCEPT !.op = "initAuth", !.id = k]
  /\ UNCHANGED <<sock, isReady, qrCodeData, userInfo, handles, reqs, uploads, sent>>

\* The second await resolves: sock = makeWASocket(...) and the handlers are
\* registered on the new handle.  Nothing is done to the handle sock held.
InitMakeSocket(k) ==
  /\ inits[k].st = "version"
  /\ handles' = [handles EXCEPT ![k] = "connecting"]
  /\ inits' = [inits EXCEPT ![k] = [st |-> "done", firedReady |-> FALSE]]
  /\ sock' = k
  /\ lastOp' = [NoOp EXCEPT !.op = "initMake", !.id = k]
  /\ UNCHANGED <<isReady, qrCodeData, userInfo, authDir, reqs, uploads, sent>>

\* A catch block that sets the retry timer twice.
InitCatchRetriesTwice(k) ==
  /\ inits[k].st \in {"auth", "version"}
  /\ Cardinality(FreeInits) >= 2
  /\ isReady' = FALSE
  /\ inits' = SetTimeout(SetTimeout(
                 [inits EXCEPT ![k] = [st |-> "failed", firedReady |-> FALSE]]))
  /\ lastOp' = [NoOp EXCEPT !.op = "initCatch", !.id = k, !.sched = 2,
                            !.timer = NextTimer(inits) + 1]
  /\ UNCHANGED <<sock, qrCodeData, userInfo, authDir, handles, reqs, uploads, sent>>

\* A catch block that logs the error and schedules no retry.
InitCatchNoRetry(k) ==
  /\ inits[k].st \in {"auth", "version"}
  /\ isReady' = FALSE
  /\ inits' = [inits EXCEPT ![k] = [st |-> "failed", firedReady |-> FALSE]]
  /\ lastOp' = [NoOp EXCEPT !.op = "initCatch", !.id = k]
  /\ UNCHANGED <<sock, qrCodeData, userInfo, authDir, handles, reqs, uploads, sent>>

\* An await rejects or makeWASocket throws: the catch block.
InitCatch(k) ==
  /\ inits[k].st \in {"auth", "version"}
  /\ Cardinality(FreeInits) >= 1
  /\ isReady' = FALSE
  /\ inits' = SetTimeout([inits EXCEPT ![k] = [st |-> "failed", firedReady |-> FALSE]])
  /\ lastOp' = [NoOp EXCEPT !.op = "initCatch", !.id = k, !.sched = 1,
                            !.timer = NextTimer(inits)]
  /\ UNCHANGED <<sock, qrCodeData, userInfo, authDir, handles, reqs, uploads, sent>>

\* An execution whose catch block has run has returned: nothing of it is
\* left in the process, and its slot can stand for a later execution.
InitReturned(k) ==
  /\ inits[k].st = "failed"
  /\ inits' = [inits EXCEPT ![k] = NoInit]
  /\ lastOp' = [NoOp EXCEPT !.op = "initReturned", !.id = k]
  /\ UNCHANGED <<sock, isReady, qrCodeData, userInfo, authDir, handles, reqs,
                 uploads, sent>>

\* ----------------------------------------- connection.update handler
\* A close branch that reconnects whatever the reason is.
ShouldReconnectAlways(reason) == TRUE

\* shouldReconnect of the close branch.
ShouldReconnect(reason) ==
  IF reason \in {"loggedOut", "boomOther"} THEN reason # "loggedOut" ELSE TRUE

\* A qr branch that keeps the first token until something clears it.
OnQrKeepsFirst(h, token) ==
  /\ handles[h] = "connecting"
  /\ qrCodeData' = IF qrCodeData = Null THEN token ELSE qrCodeData
  /\ lastOp' = [NoOp EXCEPT !.op = "qr", !.id = h, !.token = token]
  /\ UNCHANGED <<sock, isReady, userInfo, authDir, handles, inits, reqs, uploads, sent>>

\* update.qr is set.
OnQr(h, token) ==
  /\ handles[h] = "connecting"
  /\ qrCodeData' = token
  /\ lastOp' = [NoOp EXCEPT !.op = "qr", !.id = h, !.token = token]
  /\ UNCHANGED <<sock, isReady, userInfo, authDir, handles, inits, reqs, uploads, sent>>

\* A close branch that schedules the reconnect but leaves isReady as it was.
OnCloseKeepsReady(h, reason) ==
  /\ h \in LiveHandles
  /\ ShouldReconnect(reason) => Cardinality(FreeInits) >= 1
  /\ handles' = [handles EXCEPT ![h] = "closed"]
  /\ qrCodeData' = Null
  /\ inits' = IF ShouldReconnect(reason) THEN SetTimeout(inits) ELSE inits
  /\ lastOp' = [NoOp EXCEPT !.op = "close", !.id = h, !.reason = reason,
                            !.wasReady = isReady,
                            !.sched = IF ShouldReconnect(reason) THEN 1 ELSE 0,
                            !.timer = IF ShouldReconnect(reason)
                                        THEN NextTimer(inits) ELSE 0]
  /\ UNCHANGED <<sock, isReady, userInfo, authDir, reqs, uploads, sent>>

\* A close branch that also wipes auth_info when the reason is logged-out.
OnCloseWipesAuth(h, reason) ==
  /\ h \in LiveHandles
  /\ ShouldReconnect(reason) => Cardinality(FreeInits) >= 1
  /\ handles' = [handles EXCEPT ![h] = "closed"]
  /\ isReady' = FALSE
  /\ qrCodeData' = Null
  /\ authDir' = IF reason = "loggedOut" THEN FALSE ELSE authDir
  /\ inits' = IF ShouldReconnect(reason) THEN SetTimeout(inits) ELSE inits
  /\ lastOp' = [NoOp EXCEPT !.op = "close", !.id = h, !.reason = reason,
                            !.wasReady = isReady,
                            !.sched = IF ShouldReconnect(reason) THEN 1 ELSE 0,
                            !.timer = IF ShouldReconnect(reason)
                                        THEN NextTimer(inits) ELSE 0]
  /\ UNCHANGED <<sock, userInfo, reqs, uploads, sent>>

\* update.connection === 'close'.
OnClose(h, reason) ==
  /\ h \in LiveHandles
  /\ ShouldReconnect(reason) => Cardinality(FreeInits) >= 1
  /\ handles' = [handles EXCEPT ![h] = "closed"]
  /\ isReady' = FALSE
  /\ qrCodeData' = Null
  /\ inits' = IF ShouldReconnect(reason) THEN SetTimeout(inits) ELSE inits
  /\ lastOp' = [NoOp EXCEPT !.op = "close", !.id = h, !.reason = reason,
                            !.wasReady = isReady,
                            !.sched = IF ShouldReconnect(reason) THEN 1 ELSE 0,
                            !.timer = IF ShouldReconnect(reason)
                                        THEN NextTimer(inits) ELSE 0]
  /\ UNCHANGED <<sock, userInfo, authDir, reqs, uploads, sent>>

\* update.connection === 'open'.  The handler reads sock.user of whatever
\* sock holds; with sock null that read throws after the two assignments.
\* hasUser is whether sock.user is set: it is on the handle that has just
\* logged in, and may or may not be on another handle.
OnOpen(h, hasUser) ==
  /\ handles[h] = "connecting"
  /\ sock = h => hasUser
  /\ sock = Null => ~hasUser
  /\ handles' = [handles EXCEPT ![h] = "open"]
  /\ isReady' = TRUE
  /\ qrCodeData' = Null
  /\ userInfo' = IF hasUser THEN sock ELSE userInfo
  /\ lastOp' = [NoOp EXCEPT !.op = "open", !.id = h, !.fault = (sock = Null)]
  /\ UNCHANGED <<sock, authDir, inits, reqs, uploads, sent>>

\* ------------------------------------------------ POST /api/disconnect
\* What sock.end() can do to the handle: close it silently, or close it and
\* deliver the close update (with no error, so shouldReconnect is true) to the
\* handler registered on it, whose assignments the reset that follows
\* repeats, or shut it and throw (the error is caught and logged).  On a
\* closed handle it does nothing.
EndOutcomes(h) ==
  IF h \in LiveHandles THEN {"closed", "closedEmit", "threw"} ELSE {"closed"}

\* The handler sets the reinitialisation timer whatever deleteAuth is.
OwnTimersAlways(d) == 1

\* The handler never sets the reinitialisation timer.
OwnTimersNever(d) == 0

\* if (!deleteAuth) setTimeout(() => { initializeWhatsApp(); }, 2000):
\* the number of timers the handler sets itself.
OwnTimers(d) == IF d THEN 0 ELSE 1

\* The request arrives.  With sock null it is answered at once; otherwise the
\* handler calls sock.logout() and is suspended at the await.
DisconnectStart(r, d) ==
  /\ r \in FreeReqs
  /\ r = Min(FreeReqs)
  /\ IF sock = Null
       THEN /\ reqs' = [reqs EXCEPT ![r] = [st |-> "done", deleteAuth |-> FALSE, h |-> Null]]
            /\ lastOp' = [NoOp EXCEPT !.op = "disconnectNoSock", !.id = r,
                                      !.deleteAuth = d, !.status = "success", !.deletedAuth = FALSE]
       ELSE /\ reqs' = [reqs EXCEPT ![r] = [st |-> "logout", deleteAuth |-> d,
                                            h |-> IF d THEN sock ELSE Null]]
            /\ lastOp' = [NoOp EXCEPT !.op = "logout", !.id = r, !.deleteAuth = d]
  /\ UNCHANGED <<sock, isReady, qrCodeData, userInfo, authDir, handles, inits, uploads, sent>>

\* A teardown that forgets "sock = null".
DisconnectFinishKeepsSock(r, end, rmThrows) ==
  LET d == reqs[r].deleteAuth
      emit == IF sock # Null /\ end = "closedEmit" THEN 1 ELSE 0
      own == OwnTimers(d)
      afterEmit == IF emit = 1 THEN SetTimeout(inits) ELSE inits
      after == IF own = 1 THEN SetTimeout(afterEmit) ELSE afterEmit
  IN
  /\ reqs[r].st = "logout"
  /\ end \in (IF sock = Null THEN {"none"} ELSE EndOutcomes(sock))
  /\ rmThrows => (d /\ authDir)
  /\ Cardinality(FreeInits) >= emit + own
  /\ handles' = IF sock # Null
                  THEN [handles EXCEPT ![sock] = "closed"]
                  ELSE handles
  /\ isReady' = FALSE
  /\ qrCodeData' = Null
  /\ authDir' = IF d /\ ~rmThrows THEN FALSE ELSE authDir
  /\ inits' = after
  /\ reqs' = [reqs EXCEPT ![r] = [st |-> "done", deleteAuth |-> FALSE, h |-> Null]]
  /\ lastOp' = [NoOp EXCEPT !.op = "disconnect", !.id = r, !.deleteAuth = d,
                            !.status = "success", !.deletedAuth = d,
                            !.sched = emit + own, !.own = own,
                            !.timer = IF emit + own = 0 THEN 0
                                      ELSE IF emit + own = 1 THEN NextTimer(inits)
                                      ELSE NextTimer(SetTimeout(inits))]
  /\ UNCHANGED <<sock, userInfo, uploads, sent>>

\* A teardown without the try/catch around end(): its error goes to the
\* outer catch before the reset, which answers 500.
DisconnectFinishEndFatal(r, end, rmThrows) ==
  LET d == reqs[r].deleteAuth
      emit == IF sock # Null /\ end = "closedEmit" THEN 1 ELSE 0
      own == OwnTimers(d)
      afterEmit == IF emit = 1 THEN SetTimeout(inits) ELSE inits
      after == IF own = 1 THEN SetTimeout(afterEmit) ELSE afterEmit
  IN
  /\ reqs[r].st = "logout"
  /\ end \in (IF sock = Null THEN {"none"} ELSE EndOutcomes(sock))
  /\ rmThrows => (d /\ authDir /\ end # "threw")
  /\ Cardinality(FreeInits) >= emit + own
  /\ reqs' = [reqs EXCEPT ![r] = [st |-> "done", deleteAuth |-> FALSE, h |-> Null]]
  /\ handles' = IF sock # Null
                  THEN [handles EXCEPT ![sock] = "closed"]
                  ELSE handles
  /\ IF end = "threw"
       THEN /\ lastOp' = [NoOp EXCEPT !.op = "disconnect", !.id = r, !.deleteAuth = d,
                                      !.status = "error", !.code = 500]
            /\ UNCHANGED <<sock, isReady, qrCodeData, authDir, inits>>
       ELSE /\ sock' = Null
            /\ isReady' = FALSE
            /\ qrCodeData' = Null
            /\ authDir' = IF d /\ ~rmThrows THEN FALSE ELSE authDir
            /\ inits' = after
            /\ lastOp' = [NoOp EXCEPT !.op = "disconnect", !.id = r, !.deleteAuth = d,
                            !.status = "success", !.deletedAuth = d,
                            !.sched = emit + own, !.own = own,
                            !.timer = IF emit + own = 0 THEN 0
                                      ELSE IF emit + own = 1 THEN NextTimer(inits)
                                      ELSE NextTimer(SetTimeout(inits))]
  /\ UNCHANGED <<userInfo, uploads, sent>>

\* A teardown without the try/catch around rmSync: its error goes to the
\* outer catch after the reset, which answers 500 and sets no timer.
DisconnectFinishRmFatal(r, end, rmThrows) ==
  LET d == reqs[r].deleteAuth
      emit == IF sock # Null /\ end = "closedEmit" THEN 1 ELSE 0
      own == OwnTimers(d)
      afterEmit == IF emit = 1 THEN SetTimeout(inits) ELSE inits
      after == IF own = 1 THEN SetTimeout(afterEmit) ELSE afterEmit
  IN
  /\ reqs[r].st = "logout"
  /\ end \in (IF sock = Null THEN {"none"} ELSE EndOutcomes(sock))
  /\ rmThrows => (d /\ authDir)
  /\ Cardinality(FreeInits) >= emit + own
  /\ reqs' = [reqs EXCEPT ![r] = [st |-> "done", deleteAuth |-> FALSE, h |-> Null]]
  /\ IF rmThrows
       THEN /\ lastOp' = [NoOp EXCEPT !.op = "disconnect", !.id = r, !.deleteAuth = d,
                                      !.status = "error", !.code = 500,
                                      !.sched = emit,
                                      !.timer = IF emit = 0 THEN 0 ELSE NextTimer(inits)]
            /\ handles' = IF sock # Null
                            THEN [handles EXCEPT ![sock] = "closed"]
                            ELSE handles
            /\ sock' = Null
            /\ isReady' = FALSE
            /\ qrCodeData' = Null
            /\ authDir' = authDir
            /\ inits' = afterEmit
       ELSE /\ handles' = IF sock # Null
                            THEN [handles EXCEPT ![sock] = "closed"]
                            ELSE handles
            /\ sock' = Null
            /\ isReady' = FALSE
            /\ qrCodeData' = Null
            /\ authDir' = IF d THEN FALSE ELSE authDir
            /\ inits' = after
            /\ lastOp' = [NoOp EXCEPT !.op = "disconnect", !.id = r, !.deleteAuth = d,
                            !.status = "success", !.deletedAuth = d,
                            !.sched = emit + own, !.own = own,
                            !.timer = IF emit + own = 0 THEN 0
                                      ELSE IF emit + own = 1 THEN NextTimer(inits)
                                      ELSE NextTimer(SetTimeout(inits))]
  /\ UNCHANGED <<userInfo, uploads, sent>>

\* logout() has settled (resolved or rejected, both go on): end the handle
\* sock holds now, reset the state, delete auth_info if asked, answer, and
\* schedule the reinitialisation if auth_info was kept.  Each of logout(),
\* end() and rmSync sits in its own try/catch, so none of their errors
\* reaches the outer catch.
DisconnectFinish(r, end, rmThrows) ==
  LET d == reqs[r].deleteAuth
      emit == IF sock # Null /\ end = "closedEmit" THEN 1 ELSE 0
      own == OwnTimers(d)
      afterEmit == IF emit = 1 THEN SetTimeout(inits) ELSE inits
      after == IF own = 1 THEN SetTimeout(afterEmit) ELSE afterEmit
  IN
  /\ reqs[r].st = "logout"
  /\ end \in (IF sock = Null THEN {"none"} ELSE EndOutcomes(sock))
  /\ rmThrows => (d /\ authDir)
  /\ Cardinality(FreeInits) >= emit + own
  /\ handles' = IF sock # Null
                  THEN [handles EXCEPT ![sock] = "closed"]
                  ELSE handles
  /\ sock' = Null
  /\ isReady' = FALSE
  /\ qrCodeData' = Null
  /\ authDir' = IF d /\ ~rmThrows THEN FALSE ELSE authDir
  /\ inits' = after
  /\ reqs' = [reqs EXCEPT ![r] = [st |-> "done", deleteAuth |-> FALSE, h |-> Null]]
  /\ lastOp' = [NoOp EXCEPT !.op = "disconnect", !.id = r, !.deleteAuth = d,
                            !.status = "success", !.deletedAuth = d,
                            !.sched = emit + own, !.own = own,
                            !.timer = IF emit + own = 0 THEN 0
                                      ELSE IF emit + own = 1 THEN NextTimer(inits)
                                      ELSE NextTimer(SetTimeout(inits))]
  /\ UNCHANGED <<userInfo, uploads, sent>>

\* ------------------------------------------------ target normalisation
\* A target is a sequence of characters.  The two suffixes are single
\* symbols here: the code looks for them as whole substrings.
Digits == {"0", "1", "2", "3", "4", "5", "6", "7", "8", "9"}
Chars == {"6", "2", "+", "-", "@s.whatsapp.net", "@g.us"}
Targets == UNION {[1..n -> Chars] : n \in 0..MaxLen}

\* number.includes(marker)
Includes(number, marker) == \E i \in 1..Len(number) : number[i] = marker

\* What number.replace(/[^\d+]/g, '') keeps of the string: the characters
\* outside the negated class, which lists the digits and the plus sign.
Kept(c) == c \in Digits \cup {"+"}

\* The jid computed from the number field of a send-message request.
FormatJid(number) ==
  IF Includes(number, "@g.us") THEN number
  ELSE IF Includes(number, "@s.whatsapp.net") THEN number
  ELSE SelectSeq(number, Kept) \o <<"@s.whatsapp.net">>

\* One run of the normalisation on a target.
FormatStep(number) ==
  /\ lastOp' = [NoOp EXCEPT !.op = "format", !.number = number,
                            !.jid = FormatJid(number)]
  /\ UNCHANGED <<sock, isReady, qrCodeData, userInfo, authDir, handles, inits,
                 reqs, uploads, sent>>

FormatNext == \E number \in Targets : FormatStep(number)

FormatSpec == Init /\ [][FormatNext]_vars

\* ------------------------------- POST /api/send-message, GET /api/groups
\* The number fields requests carry: none (or empty), and a phone number.
SendNumbers == {<<>>, <<"+", "6", "2">>}
\* The message fields: none (or empty), and a text.
Messages == {"", "hi"}
\* How an awaited call on the handle settles: it resolves, or it rejects
\* with an error whose message is a text or is empty.
WireOutcomes ==
  {[ok |-> TRUE, message |-> ""]} \cup
  {[ok |-> FALSE, message |-> m] : m \in {"Connection Closed", ""}}

\* A gate that looks at sock only.
NotReadySockOnly == sock = Null

\* if (!isReady || !sock)
NotReady == ~(isReady /\ sock # Null)

\* A text is demanded even when an image comes with the request.
NeedsMessageAlways(hasFile, message) == message = ""

\* Without an image the message field is required: if (!message).
NeedsMessage(hasFile, message) == ~hasFile /\ message = ""

\* A catch block that answers with a fixed text.
GroupsErrorMessageFixed(m) == "Failed to fetch groups"

\* error.message || 'Failed to fetch groups'
GroupsErrorMessage(m) == IF m = "" THEN "Failed to fetch groups" ELSE m

\* The request has gone through upload.single('image'), which has written
\* the file, if there is one, to uploads/ before the handler runs.  The handler
\* answers 400 at the gate or at a validation, or computes the jid and calls
\* sock.sendMessage, at whose await it is suspended.
SendStart(r, num, message, hasFile) ==
  LET in == [NoOp EXCEPT !.op = "send", !.id = r, !.number = num,
                         !.text = message, !.file = hasFile]
      done == [reqs EXCEPT ![r] = [st |-> "done", deleteAuth |-> FALSE, h |-> Null]]
  IN
  /\ r \in FreeReqs
  /\ r = Min(FreeReqs)
  /\ uploads' = IF hasFile THEN uploads \cup {r} ELSE uploads
  /\ IF NotReady
       THEN /\ reqs' = done
            /\ sent' = sent
            /\ lastOp' = [in EXCEPT !.code = 400, !.status = "error",
                            !.message = "WhatsApp client is not ready. Please scan QR code first."]
       ELSE IF num = <<>>
       THEN /\ reqs' = done
            /\ sent' = sent
            /\ lastOp' = [in EXCEPT !.code = 400, !.status = "error",
                                    !.message = "Number is required"]
       ELSE IF NeedsMessage(hasFile, message)
       THEN /\ reqs' = done
            /\ sent' = sent
            /\ lastOp' = [in EXCEPT !.code = 400, !.status = "error",
                            !.message = "Message is required when no image is provided"]
       ELSE /\ reqs' = [reqs EXCEPT ![r] = [st |-> "sending", deleteAuth |-> FALSE, h |-> Null]]
            /\ sent' = [sent EXCEPT ![r] = @ + 1]
            /\ lastOp' = [in EXCEPT !.calls = 1, !.jid = FormatJid(num),
                                    !.payload = IF hasFile THEN "image" ELSE "text",
                                    !.caption = IF hasFile /\ message # ""
                                                  THEN message ELSE ""]
  /\ UNCHANGED <<sock, isReady, qrCodeData, userInfo, authDir, handles, inits>>

\* A catch block that calls sock.sendMessage once more when the call rejected.
SendFinishRetries(r, out) ==
  /\ reqs[r].st = "sending"
  /\ ~out.ok
  /\ sent[r] < 2
  /\ sent' = [sent EXCEPT ![r] = @ + 1]
  /\ lastOp' = [NoOp EXCEPT !.op = "sendRetry", !.id = r, !.calls = 1,
                            !.threw = TRUE, !.err = out.message]
  /\ UNCHANGED <<sock, isReady, qrCodeData, userInfo, authDir, handles, inits,
                 reqs, uploads>>

\* sock.sendMessage has settled.  Resolved: the uploaded file is unlinked and
\* the answer is the success.  Rejected: the file is unlinked (inner catch of
\* the image branch, or the outer catch) and the answer is a 500 with
\* error.message.
SendFinish(r, out) ==
  /\ reqs[r].st = "sending"
  /\ reqs' = [reqs EXCEPT ![r] = [st |-> "done", deleteAuth |-> FALSE, h |-> Null]]
  /\ uploads' = uploads \ {r}
  /\ lastOp' = IF out.ok
                 THEN [NoOp EXCEPT !.op = "sendDone", !.id = r, !.code = 200,
                                   !.status = "success", !.file = (r \in uploads),
                                   !.message = IF r \in uploads
                                                 THEN "Message with image sent successfully"
                                                 ELSE "Message sent successfully"]
                 ELSE [NoOp EXCEPT !.op = "sendDone", !.id = r, !.code = 500,
                                   !.status = "error", !.file = (r \in uploads),
                                   !.message = out.message,
                                   !.threw = TRUE, !.err = out.message]
  /\ UNCHANGED <<sock, isReady, qrCodeData, userInfo, authDir, handles, inits, sent>>

\* GET /api/groups arrives: 400 at the gate, or the handler calls
\* sock.groupFetchAllParticipating() and is suspended at the await.
GroupsStart(r) ==
  /\ r \in FreeReqs
  /\ r = Min(FreeReqs)
  /\ IF NotReady
       THEN /\ reqs' = [reqs EXCEPT ![r] = [st |-> "done", deleteAuth |-> FALSE, h |-> Null]]
            /\ lastOp' = [NoOp EXCEPT !.op = "groups", !.id = r, !.code = 400,
                            !.status = "error",
                            !.message = "WhatsApp client is not ready. Please scan QR code first."]
       ELSE /\ reqs' = [reqs EXCEPT ![r] = [st |-> "fetching", deleteAuth |-> FALSE, h |-> Null]]
            /\ lastOp' = [NoOp EXCEPT !.op = "groups", !.id = r, !.calls = 1]
  /\ UNCHANGED <<sock, isReady, qrCodeData, userInfo, authDir, handles, inits,
                 uploads, sent>>

\* groupFetchAllParticipating has settled: the list, or the catch block.
GroupsFinish(r, out) ==
  /\ reqs[r].st = "fetching"
  /\ reqs' = [reqs EXCEPT ![r] = [st |-> "done", deleteAuth |-> FALSE, h |-> Null]]
  /\ lastOp' = IF out.ok
                 THEN [NoOp EXCEPT !.op = "groupsDone", !.id = r, !.code = 200,
                                   !.status = "success"]
                 ELSE [NoOp EXCEPT !.op = "groupsDone", !.id = r, !.code = 500,
                                   !.status = "error",
                                   !.message = GroupsErrorMessage(out.message),
                                   !.threw = TRUE, !.err = out.message]
  /\ UNCHANGED <<sock, isReady, qrCodeData, userInfo, authDir, handles, inits,
                 uploads, sent>>

\* ------------------------------- GET /api, GET /api/qr, GET /api/status
\* GET /api: the health check.
GetApi ==
  /\ lastOp' = [NoOp EXCEPT !.op = "getApi", !.code = 200, !.status = "OK",
                            !.whatsappReady = isReady]
  /\ UNCHANGED <<sock, isReady, qrCodeData, userInfo, authDir, handles, inits,
                 reqs, uploads, sent>>

\* An answer that skips the check of isReady.
QrAnswerUnguarded ==
  IF qrCodeData = Null THEN [status |-> "waiting", qr |-> Null]
  ELSE [status |-> "success", qr |-> qrCodeData]

\* The answer of GET /api/qr: 'ready' when isReady, 'waiting' when no token
\* is stored, else the stored token.
QrAnswer ==
  IF isReady THEN [status |-> "ready", qr |-> Null]
  ELSE IF qrCodeData = Null THEN [status |-> "waiting", qr |-> Null]
  ELSE [status |-> "success", qr |-> qrCodeData]

\* A route that hands the token out once and forgets it.
GetQrConsumes ==
  /\ lastOp' = [NoOp EXCEPT !.op = "getQr", !.code = 200,
                            !.status = QrAnswer.status, !.qr = QrAnswer.qr]
  /\ qrCodeData' = Null
  /\ UNCHANGED <<sock, isReady, userInfo, authDir, handles, inits,
                 reqs, uploads, sent>>

\* GET /api/qr
GetQr ==
  /\ lastOp' = [NoOp EXCEPT !.op = "getQr", !.code = 200,
                            !.status = QrAnswer.status, !.qr = QrAnswer.qr]
  /\ UNCHANGED <<sock, isReady, qrCodeData, userInfo, authDir, handles, inits,
                 reqs, uploads, sent>>

\* GET /api/status
GetStatus ==
  /\ lastOp' = [NoOp EXCEPT !.op = "getStatus", !.code = 200,
                            !.status = IF isReady THEN "ready" ELSE "not_ready",
                            !.isReady = isReady,
                            !.hasQrCode = (qrCodeData # Null),
                            !.hasSocket = (sock # Null)]
  /\ UNCHANGED <<sock, isReady, qrCodeData, userInfo, authDir, handles, inits,
                 reqs, uploads, sent>>

\* ------------------------------------------------------------------ Next
\* The steps of the connection lifecycle.
Next ==
  \/ \E k \in InitIds : TimerFire(k)
  \/ \E k \in InitIds : InitAuthLoaded(k)
  \/ \E k \in InitIds : InitMakeSocket(k)
  \/ \E k \in InitIds : InitCatch(k)
  \/ \E h \in InitIds, t \in QrTokens : OnQr(h, t)
  \/ \E h \in InitIds, reason \in CloseReasons : OnClose(h, reason)
  \/ \E h \in InitIds, hasUser \in BOOLEAN : OnOpen(h, hasUser)
  \/ \E r \in ReqIds, d \in BOOLEAN : DisconnectStart(r, d)
  \/ \E r \in ReqIds, end \in {"none", "closed", "closedEmit", "threw"},
        rmThrows \in BOOLEAN :
       DisconnectFinish(r, end, rmThrows)

\* The lifecycle together with the two routes that use the handle.  Those
\* routes read sock and isReady and assign none of the lifecycle variables.
ApiNext ==
  \/ Next
  \/ \E r \in ReqIds, num \in SendNumbers, message \in Messages, hasFile \in BOOLEAN :
       SendStart(r, num, message, hasFile)
  \/ \E r \in ReqIds, out \in WireOutcomes : SendFinish(r, out)
  \/ \E r \in ReqIds : GroupsStart(r)
  \/ \E r \in ReqIds, out \in WireOutcomes : GroupsFinish(r, out)

ApiSpec == Init /\ [][ApiNext]_vars

\* The lifecycle together with the three read routes.
ReadNext ==
  \/ Next
  \/ GetApi
  \/ GetQr
  \/ GetStatus

ReadSpec == Init /\ [][ReadNext]_vars

Spec == Init /\ [][Next]_vars

\* The scheduling Node guarantees: a timer that is due fires, and a
\* suspended execution of initializeWhatsApp is resumed when its await settles.
Fairness ==
  \A k \in InitIds :
    /\ WF_vars(TimerFire(k))
    /\ WF_vars(InitAuthLoaded(k))
    /\ WF_vars(InitMakeSocket(k))

LiveSpec == Init /\ [][Next]_vars /\ Fairness

\* The lifecycle with the slots of returned executions used again, so that a
\* run of retries is not cut short by MaxInits.
RetryNext ==
  \/ Next
  \/ \E k \in InitIds : InitReturned(k)

RetrySpec == Init /\ [][RetryNext]_vars /\ Fairness

TypeOK ==
  /\ sock \in {Null} \cup InitIds
  /\ isReady \in BOOLEAN
  /\ qrCodeData \in {Null} \cup QrTokens
  /\ userInfo \in {Null} \cup InitIds
  /\ authDir \in BOOLEAN
  /\ \A h \in InitIds : handles[h] \in {"none", "connecting", "open", "closed"}
  /\ \A k \in InitIds : inits[k].st \in {"unused", "timer", "auth", "version", "done", "failed"}
  /\ \A r \in ReqIds : reqs[r].st \in {"unused", "logout", "sending", "fetching", "done"}
  /\ uploads \subseteq ReqIds
  /\ \A r \in ReqIds : sent[r] \in 0..1

\* ================================================================ claims

\* C1: exactly one session handle is live at any time: there are never two
\* handles made by initializeWhatsApp that are both still un-closed.
C1_OneLiveHandle == Cardinality(LiveHandles) <= 1

\* C2: the stored QR payload is non-empty only while the connection awaits
\* a scan: qrCodeData != null implies isReady = false.
C2_QrOnlyWhileNotReady == qrCodeData # Null => ~isReady

\* C3: the stored identity is present if and only if the phase is Ready:
\* userInfo != null exactly when isReady = true.
C3_IdentityIffReady == (userInfo # Null) <=> isReady

\* C4: a connect request is a no-op while Ready: an execution of
\* initializeWhatsApp whose timer fired while isReady was true makes no handle
\* and leaves sock, isReady, qrCodeData and userInfo unchanged.
C4_ConnectNoOpWhileReady ==
  [][\A k \in InitIds :
       (inits[k].st = "version" /\ inits[k].firedReady /\ inits'[k].st = "done")
         => /\ handles' = handles
            /\ UNCHANGED <<sock, isReady, qrCodeData, userInfo>>]_vars

\* C5: a close update with a reason other than logged-out, processed while
\* isReady is true, schedules exactly one reconnect timer and sets isReady to
\* false in the same step.
C5_CloseWhileReady ==
  [][(isReady /\ lastOp'.op = "close" /\ lastOp'.reason # "loggedOut")
       => /\ ~isReady'
          /\ Cardinality(PendingTimers') = Cardinality(PendingTimers) + 1
          /\ PendingTimers \subseteq PendingTimers']_vars

C5_Witness ==
  /\ lastOp.op = "close"
  /\ lastOp.reason # "loggedOut"
  /\ lastOp.wasReady
  /\ inits[lastOp.timer].st = "timer"

\* C6: the server reconnects by itself after the connection is lost: once a
\* close update with a reason other than logged-out has scheduled its timer,
\* under fair timer firing that execution of initializeWhatsApp runs to its
\* end: it makes a new handle, or its catch block schedules a further retry.
C6_Reconnects ==
  \A k \in InitIds :
    (lastOp.op = "close" /\ lastOp.reason # "loggedOut" /\ lastOp.timer = k)
      ~> \/ handles[k] # "none"
         \/ /\ lastOp.op = "initCatch" /\ lastOp.id = k /\ lastOp.sched = 1
            /\ inits[k].st = "failed"
            /\ inits[lastOp.timer].st = "timer"

C6_Witness ==
  /\ lastOp.op = "initMake"
  /\ \E h \in InitIds : h < lastOp.id /\ handles[h] = "closed" /\ sock = lastOp.id
  /\ handles[lastOp.id] = "connecting"
  /\ \A r \in ReqIds : reqs[r].st = "unused"

\* C7: a close update whose reason is the logged-out status sets isReady to
\* false and qrCodeData to null, and its handler schedules no reconnect timer.
C7_LoggedOutNoReconnect ==
  [][(lastOp'.op = "close" /\ lastOp'.reason = "loggedOut")
       => /\ ~isReady'
          /\ qrCodeData' = Null
          /\ inits' = inits]_vars

C7_Witness ==
  /\ lastOp.op = "close"
  /\ lastOp.reason = "loggedOut"
  /\ lastOp.wasReady
  /\ handles[lastOp.id] = "closed"

\* C8: POST /api/disconnect is idempotent: a request that arrives right after
\* a disconnect request without deleteAuth has been answered is answered at
\* once with status success and deletedAuth false, as the first was, and
\* changes no state.
C8_DisconnectIdempotent ==
  [][(/\ lastOp.op \in {"disconnect", "disconnectNoSock"}
      /\ ~lastOp.deleteAuth
      /\ lastOp'.op \in {"logout", "disconnectNoSock"})
       => /\ lastOp.status = "success" /\ ~lastOp.deletedAuth
          /\ lastOp'.op = "disconnectNoSock"
          /\ lastOp'.status = "success" /\ ~lastOp'.deletedAuth
          /\ UNCHANGED <<sock, isReady, qrCodeData, userInfo, authDir, handles, inits>>]_vars

C8_Witness ==
  /\ lastOp.op = "disconnectNoSock" /\ lastOp.id = 2 /\ ~lastOp.deleteAuth
  /\ reqs[1].st = "done"
  /\ handles[1] = "closed" /\ inits[2].st = "timer" /\ inits[3].st = "unused"

\* C9: credential deletion is unconditional: every disconnect request with
\* deleteAuth = true that is answered with status success leaves the
\* directory auth_info deleted.
C9_DeleteAuthUnconditional ==
  (lastOp.op \in {"disconnect", "disconnectNoSock"} /\ lastOp.deleteAuth
     /\ lastOp.status = "success")
    => ~authDir

\* C10: clearing auth reconnects by itself: once a disconnect with
\* deleteAuth = true has torn the connection down, the system is not left
\* without a handle and without a pending connect.
C10_ClearAuthReconnects ==
  (lastOp.op = "disconnect" /\ lastOp.deleteAuth)
    => (LiveHandles # {} \/ PendingTimers # {} \/ RunningInits # {})

C12_LoggedOutWipesAuth ==
  (lastOp.op = "close" /\ lastOp.reason = "loggedOut") => ~authDir

\* C13: a send-message or groups request handled while isReady is false or
\* sock is null is answered 400 with the not-ready error, and the step makes
\* no call on a session handle.
C13_NotReadyRefused ==
  [][(lastOp'.op \in {"send", "groups"} /\ (~isReady \/ sock = Null))
       => /\ lastOp'.code = 400
          /\ lastOp'.message = "WhatsApp client is not ready. Please scan QR code first."
          /\ lastOp'.calls = 0
          /\ sent' = sent]_vars

C13_Witness ==
  /\ lastOp.op = "send" /\ lastOp.code = 400 /\ lastOp.calls = 0
  /\ lastOp.number # <<>>
  /\ sock # Null /\ ~isReady

\* C14: a send-message request with an uploaded file handled while not ready
\* leaves uploads/ as it was before the request arrived.
C14_NotReadyLeavesUploads ==
  [][(lastOp'.op = "send" /\ lastOp'.file /\ (~isReady \/ sock = Null))
       => uploads' = uploads]_vars

\* C15: the uploaded file is removed on every exit path: no answered request
\* has its file left in uploads/.
C15_UploadRemoved == \A r \in ReqIds : reqs[r].st = "done" => r \notin uploads

\* C16: a target that carries the group or the direct-chat suffix is kept as
\* it is; of any other target only the digits are kept and the direct-chat
\* suffix is appended.
C16_TargetNormalised ==
  lastOp.op = "format" =>
    lastOp.jid =
      IF Includes(lastOp.number, "@g.us") \/ Includes(lastOp.number, "@s.whatsapp.net")
        THEN lastOp.number
        ELSE SelectSeq(lastOp.number, LAMBDA c : c \in Digits) \o <<"@s.whatsapp.net">>

\* C17: a message is never sent again by itself: sock.sendMessage is called
\* at most once for a request, in the step that handles the request, and no
\* later step calls it for that request again.
C17_SentAtMostOnce ==
  [][\A r \in ReqIds :
       /\ sent'[r] <= 1
       /\ sent'[r] # sent[r]
            => (reqs[r].st = "unused" /\ lastOp'.op = "send" /\ lastOp'.id = r)]_vars

C17_Witness ==
  \E r \in ReqIds :
    /\ reqs[r].st = "done" /\ sent[r] = 1
    /\ lastOp.op = "sendDone" /\ lastOp.id = r /\ lastOp.threw

\* C18 as stated: a failed send or group listing is answered 500 with the
\* message text of the error, and sock, isReady, qrCodeData and userInfo stay
\* as they were.
C18_FailureVerbatim ==
  [][(lastOp'.op \in {"sendDone", "groupsDone"} /\ lastOp'.threw)
       => /\ lastOp'.code = 500
          /\ lastOp'.message = lastOp'.err
          /\ UNCHANGED <<sock, isReady, qrCodeData, userInfo>>]_vars

\* C18 amended: a failed send or group listing is answered 500 with the
\* message text of the error, except that a group listing whose error has an
\* empty message is answered with 'Failed to fetch groups'; sock, isReady,
\* qrCodeData and userInfo stay as they were.
C18_FailureSurfaced ==
  [][(lastOp'.op \in {"sendDone", "groupsDone"} /\ lastOp'.threw)
       => /\ lastOp'.code = 500
          /\ lastOp'.message =
               IF lastOp'.op = "groupsDone" /\ lastOp'.err = ""
                 THEN "Failed to fetch groups" ELSE lastOp'.err
          /\ UNCHANGED <<sock, isReady, qrCodeData, userInfo>>]_vars

C18_Witness ==
  /\ lastOp.op = "groupsDone" /\ lastOp.threw /\ lastOp.code = 500
  /\ lastOp.err = "Connection Closed" /\ lastOp.message = "Connection Closed"
  /\ isReady /\ sock # Null

\* C19: while ready, a request without a number is answered 400 and one with
\* neither message nor file is answered 400, both without a call of
\* sock.sendMessage; a request with a file and no message is sent, as an image
\* with an empty caption.
C19_Validation ==
  [][(lastOp'.op = "send" /\ isReady /\ sock # Null)
       => /\ lastOp'.number = <<>>
               => (lastOp'.code = 400 /\ lastOp'.message = "Number is required"
                   /\ lastOp'.calls = 0 /\ sent' = sent)
          /\ (lastOp'.number # <<>> /\ lastOp'.text = "" /\ ~lastOp'.file)
               => (lastOp'.code = 400 /\ lastOp'.calls = 0 /\ sent' = sent)
          /\ (lastOp'.number # <<>> /\ lastOp'.text = "" /\ lastOp'.file)
               => (lastOp'.code = 0 /\ lastOp'.calls = 1
                   /\ lastOp'.payload = "image" /\ lastOp'.caption = ""
                   /\ reqs'[lastOp'.id].st = "sending")]_vars

C19_Witness ==
  /\ lastOp.op = "send" /\ lastOp.file /\ lastOp.text = "" /\ lastOp.number # <<>>
  /\ lastOp.calls = 1 /\ lastOp.payload = "image" /\ lastOp.caption = ""
  /\ reqs[lastOp.id].st = "sending"

\* C20: whenever isReady is true a session handle is present, so a request
\* that /api/status would call ready passes the readiness gate.
C20_ReadyHasSocket == isReady => sock # Null

\* C21: GET /api/status, GET /api and GET /api/qr are pure reads: their steps
\* leave sock, isReady, qrCodeData, userInfo, the timers and auth_info as they
\* were, and /api/status reports isReady, hasQrCode (a token is stored) and
\* hasSocket (sock is not null) of the state it ran in.
C21_ReadsArePure ==
  [][lastOp'.op \in {"getStatus", "getApi", "getQr"}
       => /\ UNCHANGED <<sock, isReady, qrCodeData, userInfo, authDir, handles,
                         inits, reqs, uploads, sent>>
          /\ lastOp'.op = "getStatus"
               => /\ lastOp'.isReady = isReady
                  /\ lastOp'.hasQrCode = (qrCodeData # Null)
                  /\ lastOp'.hasSocket = (sock # Null)
          /\ lastOp'.op = "getApi" => lastOp'.whatsappReady = isReady]_vars

C21_Witness ==
  /\ lastOp.op = "getStatus"
  /\ ~lastOp.isReady /\ lastOp.hasQrCode /\ lastOp.hasSocket
  /\ ~isReady /\ qrCodeData # Null /\ sock # Null
  /\ PendingTimers # {}

\* C22: GET /api/qr hands out a token only when not ready and a token is
\* stored: when isReady it answers 'ready' without a token, with no token
\* stored it answers 'waiting', and otherwise it answers with exactly the
\* stored token.
C22_QrAnswer ==
  [][lastOp'.op = "getQr"
       => IF isReady THEN lastOp'.status = "ready" /\ lastOp'.qr = Null
          ELSE IF qrCodeData = Null
            THEN lastOp'.status = "waiting" /\ lastOp'.qr = Null
            ELSE lastOp'.status = "success" /\ lastOp'.qr = qrCodeData]_vars

C22_Witness ==
  /\ lastOp.op = "getQr" /\ lastOp.status = "success"
  /\ lastOp.qr = 2 /\ qrCodeData = 2 /\ ~isReady

\* C23: a disconnect request that found a handle always finishes its
\* teardown: whatever logout() and end() did, the step that answers it leaves
\* sock null, isReady false and qrCodeData null and answers status success.
C23_TeardownCompletes ==
  [][lastOp'.op = "disconnect"
       => /\ sock' = Null /\ ~isReady' /\ qrCodeData' = Null
          /\ lastOp'.status = "success"
          /\ reqs[lastOp'.id].st = "logout" /\ reqs'[lastOp'.id].st = "done"
          /\ sock # Null => handles'[sock] = "closed"]_vars

C23_Witness ==
  /\ lastOp.op = "disconnect" /\ lastOp.status = "success"
  /\ reqs[lastOp.id].st = "done"
  /\ sock = Null /\ ~isReady /\ qrCodeData = Null
  /\ LiveHandles = {}

\* C24: a disconnect request with deleteAuth = true deletes auth_info only
\* after the handle it found, and logged out, has been closed.
C24_CloseBeforeDelete ==
  [][(lastOp'.op = "disconnect" /\ authDir /\ ~authDir')
       => handles'[reqs[lastOp'.id].h] = "closed"]_vars

\* C25: the disconnect handler itself sets the reinitialisation timer if and
\* only if deleteAuth is false; the only other timer its step can add is the
\* one of the close update end() delivers.
C25_OwnTimerIffKept ==
  [][lastOp'.op = "disconnect"
       => /\ lastOp'.own = (IF lastOp'.deleteAuth THEN 0 ELSE 1)
          /\ lastOp'.sched - lastOp'.own \in {0, 1}
          /\ (sock = Null \/ sock \notin LiveHandles) => lastOp'.sched = lastOp'.own
          /\ PendingTimers \subseteq PendingTimers'
          /\ Cardinality(PendingTimers') = Cardinality(PendingTimers) + lastOp'.sched]_vars

C25_Witness ==
  /\ lastOp.op = "disconnect" /\ ~lastOp.deleteAuth
  /\ lastOp.own = 1 /\ lastOp.sched = 1
  /\ inits[lastOp.timer].st = "timer"
  /\ authDir

\* C26: an error of the deletion of auth_info does not fail the disconnect:
\* the request still answers status success and leaves the torn-down state.
\* (The deletion was asked for and auth_info is still there: rmSync threw.)
C26_DeleteErrorSwallowed ==
  [][(lastOp'.op = "disconnect" /\ lastOp'.deleteAuth /\ authDir')
       => /\ lastOp'.status = "success" /\ lastOp'.code # 500
          /\ sock' = Null /\ ~isReady' /\ qrCodeData' = Null]_vars

C26_Witness ==
  /\ lastOp.op = "disconnect" /\ lastOp.deleteAuth /\ authDir
  /\ lastOp.status = "success" /\ lastOp.sched = 0
  /\ sock = Null /\ ~isReady /\ qrCodeData = Null

\* C27: a handle that sock no longer holds is stale: a qr, open or close
\* update it delivers leaves sock, isReady, qrCodeData and userInfo as they
\* were and schedules no timer.
C27_StaleEventsIgnored ==
  [][(lastOp'.op \in {"qr", "open", "close"} /\ lastOp'.id # sock)
       => /\ UNCHANGED <<sock, isReady, qrCodeData, userInfo>>
          /\ lastOp'.sched = 0
          /\ PendingTimers' = PendingTimers]_vars

\* C28: when initializeWhatsApp throws, isReady is false afterwards, no handle
\* has been made or installed, and exactly one timer that calls
\* initializeWhatsApp again has been added.
C28_InitFailureRetriesOnce ==
  [][lastOp'.op = "initCatch"
       => /\ ~isReady'
          /\ sock' = sock /\ handles' = handles
          /\ lastOp'.sched = 1
          /\ PendingTimers \subseteq PendingTimers'
          /\ Cardinality(PendingTimers') = Cardinality(PendingTimers) + 1
          /\ inits'[lastOp'.id].st = "failed"]_vars

C28_Witness ==
  /\ lastOp.op = "initCatch" /\ lastOp.sched = 1
  /\ inits[lastOp.id].st = "failed" /\ inits[lastOp.timer].st = "timer"
  /\ handles[lastOp.id] = "none" /\ ~isReady

\* C29: there is no unbounded retry loop: in every behaviour the retries and
\* reconnects come to an end, i.e. from some point on no timer that calls
\* initializeWhatsApp is pending and no execution of it is running.
C29_RetriesEnd == <>[](PendingTimers = {} /\ RunningInits = {})

\* C30: QR tokens are not queued: a qr update stores its own token whatever
\* was stored before, and the stored token changes in no step other than a qr
\* update, an open or close update and a disconnect.
C30_LatestQrStored ==
  [][/\ lastOp'.op = "qr" => qrCodeData' = lastOp'.token
     /\ lastOp'.op \notin {"qr", "open", "close", "disconnect"}
          => qrCodeData' = qrCodeData]_vars

C30_Witness ==
  /\ lastOp.op = "qr" /\ lastOp.token = 2 /\ qrCodeData = 2

\* C31: whenever isReady is true the handle in sock is the handle whose open
\* update set isReady: a send-message or groups request that passes the
\* readiness gate makes its call on a handle that is open, never on one that
\* is still connecting or has closed.
C31_DispatchedToOpenHandle ==
  [][/\ (isReady' /\ sock' # Null) => handles'[sock'] = "open"
     /\ (lastOp'.op \in {"send", "groups"} /\ lastOp'.calls = 1)
          => handles[sock] = "open"]_vars

\* C32: at most one reconnect is pending: the timers that will call
\* initializeWhatsApp and the executions of it suspended at an await are
\* together never more than one.
C32_OneReconnectPending ==
  Cardinality(PendingTimers) + Cardinality(RunningInits) <= 1

\* C33: a disconnect request closes the handle it logged out: the handle sock
\* holds when the request resumes after "await sock.logout()", on which end()
\* is called and which is cleared from sock, is the handle sock held when
\* logout() was called.  (reqs[r].h keeps that handle for the requests with
\* deleteAuth = true.)
C33_ClosesHandleLoggedOut ==
  [][(lastOp'.op = "disconnect" /\ reqs[lastOp'.id].h # Null /\ sock # Null)
       => sock = reqs[lastOp'.id].h]_vars

\* C34: a disconnect request answered 'Already disconnected. No active
\* connection.' while an execution of initializeWhatsApp is suspended or a
\* timer is pending describes a state that stays disconnected: the step that
\* follows the answer makes no handle live.
C34_AlreadyDisconnectedStays ==
  [][(lastOp.op = "disconnectNoSock"
        /\ (RunningInits # {} \/ PendingTimers # {}))
       => LiveHandles' \subseteq LiveHandles]_vars

\* C35: whenever a disconnect answer reports deletedAuth = true, auth_info
\* does not exist when the answer is sent.
C35_DeletedAuthIsTrue ==
  (lastOp.op \in {"disconnect", "disconnectNoSock"} /\ lastOp.deletedAuth)
    => ~authDir

\* C36: when an open update is processed, sock holds the handle that emitted
\* it, the handler does not throw, and the identity stored in userInfo is the
\* one of that handle.
C36_OpenFromCurrentHandle ==
  [][lastOp'.op = "open"
       => /\ sock = lastOp'.id
          /\ ~lastOp'.fault
          /\ userInfo' = lastOp'.id]_vars

\* C38: for every non-empty target the jid ends with the group or the
\* direct-chat suffix, and when the normalisation appended the direct-chat
\* suffix the part before it is non-empty and made of digits only.
C38_JidWellFormed ==
  (lastOp.op = "format" /\ lastOp.number # <<>>)
    => LET jid == lastOp.jid
           local == SubSeq(jid, 1, Len(jid) - 1)
           appended == ~Includes(lastOp.number, "@g.us")
                         /\ ~Includes(lastOp.number, "@s.whatsapp.net")
       IN /\ Len(jid) >= 1
          /\ jid[Len(jid)] \in {"@g.us", "@s.whatsapp.net"}
          /\ appended
               => /\ jid[Len(jid)] = "@s.whatsapp.net"
                  /\ local # <<>>
                  /\ \A i \in 1..Len(local) : local[i] \in Digits

\* C37: the system never silently stalls: in every reachable state where
\* isReady is false, a handle is live, an execution of initializeWhatsApp is
\* in progress, a timer is pending, or the most recent teardown was terminal (a
\* close update with the logged-out reason, or a disconnect with deleteAuth =
\* true).  Stated step by step: the start is not such a state, and a step
\* ends with isReady false, no live handle, no execution and no timer only if
\* it is itself a terminal teardown, or it is no teardown and started in such
\* a state (whose most recent teardown is then still the most recent one).
C37_NoSilentStall ==
  /\ (isReady \/ LiveHandles # {} \/ RunningInits # {} \/ PendingTimers # {})
  /\ [][(~isReady' /\ LiveHandles' = {} /\ RunningInits' = {}
           /\ PendingTimers' = {})
          => \/ lastOp'.op = "close" /\ lastOp'.reason = "loggedOut"
             \/ lastOp'.op = "disconnect" /\ lastOp'.deleteAuth
             \/ /\ lastOp'.op \notin {"close", "disconnect"}
                /\ ~isReady /\ LiveHandles = {} /\ RunningInits = {}
                /\ PendingTimers = {}]_vars

C37_Witness ==
  /\ lastOp.op = "disconnectNoSock"
  /\ ~isReady /\ LiveHandles = {} /\ RunningInits = {} /\ PendingTimers = {}
  /\ \E h \in InitIds : handles[h] = "closed"
====
